---- MODULE Spec2Model ----
(***************************************************************************)
(* Model of korliakov/TensorBackend: the CustomCircuit gate program        *)
(* (src/custom_circuit.py) and the UnsignedTableau with its gate actions,  *)
(* commutation test and random Clifford synthesis                          *)
(* (src/unsigned_tableau.py).                                              *)
(*                                                                         *)
(* Python objects that are mutated through aliases are modelled with an    *)
(* explicit heap: every gate entry [name, idxs] built by add_gate is an    *)
(* object at an address of `heap`, and a CustomCircuit's list is a         *)
(* sequence of addresses.  Qubit indices are 0-based as in the source;     *)
(* matrices are sequences (1-based) of rows of BOOLEAN.                    *)
(***************************************************************************)
EXTENDS Integers, Sequences, FiniteSets, TLC

VARIABLES
    heap,              \* the gate-entry objects [name, idxs], by address
    n_qubits,          \* generate_random_Clifford: the argument
    n,                 \* generate_random_Clifford: the loop variable
    pc,                \* position of the running call
    S1, S2,            \* generate_random_Clifford: the drawn Pauli rows
    T,                 \* the tableau object the gate methods act on
    compiled_circuit,  \* generate_random_Clifford: the accumulated program
    first, second,     \* operands of check_comm_strings / commutes
    ret,               \* value returned by the last commutes call
    last,              \* the last method called and its arguments
    progs              \* named CustomCircuit objects: name -> list of addresses

vars == <<heap, n_qubits, n, pc, S1, S2, T, compiled_circuit,
          first, second, ret, last, progs>>

(***************************************************************************)
(* Bounds of the model.                                                    *)
(***************************************************************************)
MaxQubits == 2      \* generate_random_Clifford is run for n_qubits in 1..MaxQubits
MaxWindow == 3      \* one round of generate_random_Clifford is run on 1..MaxWindow qubits
MaxCells == 3       \* commutes: operand tableaus have rows * columns <= MaxCells
MaxGateCells == 4   \* gate methods: the tableau has rows * columns <= MaxGateCells
MaxGateCols == 3    \* gate methods: the tableau has at most MaxGateCols columns
MaxGates == 2       \* gate methods: entries recorded on one tableau
MaxEntries == 2     \* CustomCircuit: entry objects created in one run
MaxLen == 2         \* CustomCircuit: length of a concatenation
MaxShift == 1       \* CustomCircuit: shift_qubits is called with 1..MaxShift
MaxIndex == 1       \* CustomCircuit: a program is shifted while its indices are <= MaxIndex
MaxTabCells == 2    \* tableau operations: operands have rows * columns <= MaxTabCells
MaxRows == 2        \* tableau operations: rows of a stacked tableau
MaxTabGates == 1    \* tableau operations: gate entries recorded in one run

Bit == {0, 1}

Max(a, b) == IF a >= b THEN a ELSE b

RECURSIVE SeqSum(_)
SeqSum(s) == IF s = <<>> THEN 0 ELSE Head(s) + SeqSum(Tail(s))

(***************************************************************************)
(* Python values handed to add_gate.                                       *)
(***************************************************************************)
PyInt(i)  == [ty |-> "int",  i |-> i, s |-> "", l |-> <<>>]
PyStr(s)  == [ty |-> "str",  i |-> 0, s |-> s,  l |-> <<>>]
PyList(l) == [ty |-> "list", i |-> 0, s |-> "", l |-> l]
PyFloat   == [ty |-> "float", i |-> 0, s |-> "", l |-> <<>>]

(***************************************************************************)
(* CustomCircuit  (src/custom_circuit.py)                                  *)
(***************************************************************************)
\* CustomCircuit(): self.circuit = []
CustomCircuit == <<>>

\* The entries a circuit (a list of addresses) shows, in order.
Entries(h, circ) == [k \in 1..Len(circ) |-> h[circ[k]]]

IsIntList(l) == \A k \in 1..Len(l) : l[k].ty = "int"

\* Whether list(v) returns (rather than raises TypeError): a list or a str.
Iterable(v) == v.ty \in {"list", "str"}

\* list(v): the elements of a list, the one-character strings of a str.
ListOf(v) ==
    IF v.ty = "list" THEN v.l
    ELSE [k \in 1..Len(v.s) |-> PyStr(SubSeq(v.s, k, k))]

\* add_gate(op): validates op and appends a fresh entry object [op[0], idxs].
add_gate(h, circ, op) ==
    IF Len(op) # 2
    THEN [heap |-> h, circuit |-> circ, err |-> "ValueError"]
    ELSE IF op[1].ty # "str"
    THEN [heap |-> h, circuit |-> circ, err |-> "ValueError"]
    ELSE IF op[2].ty = "int"
    THEN [heap |-> Append(h, [name |-> op[1].s, idxs |-> <<op[2].i>>]),
          circuit |-> Append(circ, Len(h) + 1),
          err |-> "none"]
    ELSE IF ~Iterable(op[2])
    THEN [heap |-> h, circuit |-> circ, err |-> "ValueError"]
    ELSE IF ~IsIntList(ListOf(op[2]))
    THEN [heap |-> h, circuit |-> circ, err |-> "ValueError"]
    ELSE [heap |-> Append(h, [name |-> op[1].s,
                              idxs |-> [k \in 1..Len(ListOf(op[2])) |->
                                           ListOf(op[2])[k].i]]),
          circuit |-> Append(circ, Len(h) + 1),
          err |-> "none"]

\* One pass of `for op in self.circuit: op[1] = [idx + shift for idx in op[1]]`
\* from position k on: the object at each position is updated in place, so an
\* object listed twice is updated twice.
RECURSIVE shift_loop(_, _, _, _)
shift_loop(h, circ, shift, k) ==
    IF k > Len(circ) THEN h
    ELSE shift_loop(
           [h EXCEPT ![circ[k]].idxs =
               [j \in 1..Len(h[circ[k]].idxs) |-> h[circ[k]].idxs[j] + shift]],
           circ, shift, k + 1)

\* shift_qubits with a fault: every entry object there is gets shifted, as if
\* the entries were shared with the programs built before.
shift_qubits_all_entries(h, circ, shift) ==
    [a \in 1..Len(h) |->
        [h[a] EXCEPT !.idxs = [j \in 1..Len(h[a].idxs) |-> h[a].idxs[j] + shift]]]

\* shift_qubits(shift): the heap after the call (the call returns self).
shift_qubits(h, circ, shift) == shift_loop(h, circ, shift, 1)

\* __add__(other): a new list holding self's references, then other's.
CircuitAdd(self, other) == CustomCircuit \o self \o other

(***************************************************************************)
(* UnsignedTableau  (src/unsigned_tableau.py)                              *)
(*                                                                         *)
(* An array handed to the constructor is [dtype, data]; data is a          *)
(* 2-dimensional matrix with at least one row and one column.  A           *)
(* constructed tableau stores boolean matrices.                            *)
(***************************************************************************)
NdArray(dtype, data) == [dtype |-> dtype, data |-> data]

Shape(m) == <<Len(m), Len(m[1])>>

\* arg.astype(bool)
AsBool(m) == [r \in 1..Len(m) |-> [c \in 1..Len(m[r]) |-> m[r][c] # 0]]

AllIn01(m) == \A r \in 1..Len(m) : \A c \in 1..Len(m[r]) : m[r][c] \in {0, 1}

\* check_xz: "ValueError", or the (normalised) boolean matrices.
check_xz(xs, zs) ==
    IF Shape(xs.data) # Shape(zs.data)
    THEN [err |-> "ValueError"]
    ELSE IF /\ xs.dtype = "int64" /\ AllIn01(xs.data)
            /\ zs.dtype = "int64" /\ AllIn01(zs.data)
    THEN [err |-> "none", xs |-> AsBool(xs.data), zs |-> AsBool(zs.data)]
    ELSE IF xs.dtype = "bool" /\ zs.dtype = "bool"
    THEN [err |-> "none", xs |-> xs.data, zs |-> zs.data]
    ELSE [err |-> "ValueError"]

\* __init__(xs, zs): the new tableau, or the error check_xz raised.
UnsignedTableau(xs, zs) ==
    LET chk == check_xz(xs, zs)
    IN IF chk.err # "none" THEN [err |-> chk.err]
       ELSE [err |-> "none",
             xs |-> chk.xs, zs |-> chk.zs,
             n_qubits |-> Len(chk.xs[1]),
             n_rows |-> Len(chk.xs),
             circuit |-> CustomCircuit]

BoolArr(m) == NdArray("bool", m)

\* __getitem__(item) for an int item: a new tableau holding a copy of that row
\* (item is 0-based).
GetItem(self, item) ==
    UnsignedTableau(BoolArr(<<self.xs[item + 1]>>), BoolArr(<<self.zs[item + 1]>>))

\* __add__(other): np.vstack of the operands' rows, self first.
TableauAdd(self, other) ==
    UnsignedTableau(BoolArr(self.xs \o other.xs), BoolArr(self.zs \o other.zs))

(***************************************************************************)
(* The numpy element-wise operations (==, bitwise_and, bitwise_xor)        *)
(* broadcast their operands: a dimension of size 1 is stretched to the     *)
(* other operand's size, two different sizes other than 1 raise.           *)
(***************************************************************************)
DimOk(a, b) == a = b \/ a = 1 \/ b = 1

Broadcastable(a, b) ==
    /\ DimOk(Len(a), Len(b))
    /\ DimOk(Len(a[1]), Len(b[1]))

\* Element (r, c) of m stretched to a larger shape.
At(m, r, c) == m[IF Len(m) = 1 THEN 1 ELSE r][IF Len(m[1]) = 1 THEN 1 ELSE c]

\* (a == b).all() for matrices that broadcast.
AllEqual(a, b) ==
    \A r \in 1..Max(Len(a), Len(b)) : \A c \in 1..Max(Len(a[1]), Len(b[1])) :
        At(a, r, c) = At(b, r, c)

\* Whether self == other returns (rather than raises).
EqDefined(self, other) == Broadcastable(self.xs, other.xs)

\* __eq__(other): (self.xs == other.xs).all() and (self.zs == other.zs).all()
TableauEq(self, other) == AllEqual(self.xs, other.xs) /\ AllEqual(self.zs, other.zs)

(***************************************************************************)
(* check_comm_strings / commutes.                                          *)
(***************************************************************************)
\* np.bitwise_and(a, b) on boolean matrices.
bitwise_and(a, b) ==
    [r \in 1..Max(Len(a), Len(b)) |->
        [c \in 1..Max(Len(a[1]), Len(b[1])) |-> At(a, r, c) /\ At(b, r, c)]]

\* np.bitwise_xor(a, b) on boolean matrices.
bitwise_xor(a, b) ==
    [r \in 1..Max(Len(a), Len(b)) |->
        [c \in 1..Max(Len(a[1]), Len(b[1])) |-> At(a, r, c) # At(b, r, c)]]

\* check_comm_strings with a fault: the parity of n_qubits is left out.
check_comm_strings_no_parity(a, b) ==
    LET x1z2 == [r \in 1..Max(Len(a.xs), Len(b.zs)) |->
                   [c \in 1..Max(Len(a.xs[1]), Len(b.zs[1])) |->
                       At(a.xs, r, c) /\ At(b.zs, r, c)]]
        x2z1 == [r \in 1..Max(Len(b.xs), Len(a.zs)) |->
                   [c \in 1..Max(Len(b.xs[1]), Len(a.zs[1])) |->
                       At(b.xs, r, c) /\ At(a.zs, r, c)]]
        zeros == {rc \in (1..Len(x1z2)) \X (1..Len(x1z2[1])) :
                     x1z2[rc[1]][rc[2]] = x2z1[rc[1]][rc[2]]}
    IN Cardinality(zeros) % 2 = 0

\* np.bitwise_not(a) on a boolean matrix.
bitwise_not(a) == [r \in 1..Len(a) |-> [c \in 1..Len(a[r]) |-> ~a[r][c]]]

\* a.sum() of a boolean matrix: the number of True entries.
MatSum(a) ==
    SeqSum([r \in 1..Len(a) |->
              SeqSum([c \in 1..Len(a[r]) |-> IF a[r][c] THEN 1 ELSE 0])])

\* Whether check_comm_strings(first, second) returns (rather than raises).
CommDefined(a, b) == Broadcastable(a.xs, b.zs) /\ Broadcastable(b.xs, a.zs)

\* check_comm_strings(first, second)
check_comm_strings(a, b) ==
    LET x1z2 == bitwise_and(a.xs, b.zs)
        x2z1 == bitwise_and(b.xs, a.zs)
        xor  == bitwise_xor(x1z2, x2z1)
    IN MatSum(bitwise_not(xor)) % 2 = a.n_qubits % 2

\* commutes(other)
commutes(self, other) == check_comm_strings(self, other)

(***************************************************************************)
(* Gate methods.  A method call maps a world [t, heap, err] (the tableau   *)
(* object, the entry objects, the exception in flight) to the world after  *)
(* the call.                                                               *)
(***************************************************************************)
World(t, h) == [t |-> t, heap |-> h, err |-> "none"]

\* Run F unless an exception is already propagating.
Then(w, F(_)) == IF w.err # "none" THEN w ELSE F(w)

\* m[:, qubit]
GetCol(m, qubit) == [r \in 1..Len(m) |-> m[r][qubit + 1]]

\* m[:, qubit] = col
SetCol(m, qubit, col) == [r \in 1..Len(m) |-> [m[r] EXCEPT ![qubit + 1] = col[r]]]

\* np.bitwise_xor of two columns
ColXor(a, b) == [r \in 1..Len(a) |-> a[r] # b[r]]

\* self.circuit.add_gate(op)
Record(w, op) ==
    LET r == add_gate(w.heap, w.t.circuit, op)
    IN [t |-> [w.t EXCEPT !.circuit = r.circuit], heap |-> r.heap, err |-> r.err]

apply_X(w, qubit) == Record(w, <<PyStr("X"), PyInt(qubit)>>)

apply_Y(w, qubit) == Record(w, <<PyStr("Y"), PyInt(qubit)>>)

apply_Z(w, qubit) == Record(w, <<PyStr("Z"), PyInt(qubit)>>)

\* apply_I with a fault: the gate is recorded like X, Y and Z.
apply_I_recorded(w, qubit) == Record(w, <<PyStr("I"), PyInt(qubit)>>)

apply_I(w, qubit) == w

\* apply_H with a fault: x_col is taken without .copy(), a view of the X column,
\* so both columns end up holding the old Z column.
apply_H_no_copy(w, qubit) ==
    LET xs1 == SetCol(w.t.xs, qubit, GetCol(w.t.zs, qubit))
    IN Record([w EXCEPT !.t.xs = xs1], <<PyStr("H"), PyInt(qubit)>>)

apply_H(w, qubit) ==
    LET x_col == GetCol(w.t.xs, qubit)
        xs1   == SetCol(w.t.xs, qubit, GetCol(w.t.zs, qubit))
        zs1   == SetCol(w.t.zs, qubit, x_col)
    IN Record([w EXCEPT !.t.xs = xs1, !.t.zs = zs1], <<PyStr("H"), PyInt(qubit)>>)

\* apply_S with a fault: the Z column is OR-ed, not XOR-ed, with the X column.
apply_S_or(w, qubit) ==
    LET zs1 == [r \in 1..Len(w.t.zs) |->
                  [w.t.zs[r] EXCEPT ![qubit + 1] = @ \/ w.t.xs[r][qubit + 1]]]
    IN Record([w EXCEPT !.t.zs = zs1], <<PyStr("S"), PyInt(qubit)>>)

apply_S(w, qubit) ==
    LET x_col == GetCol(w.t.xs, qubit)
        zs1   == SetCol(w.t.zs, qubit, ColXor(GetCol(w.t.zs, qubit), x_col))
    IN Record([w EXCEPT !.t.zs = zs1], <<PyStr("S"), PyInt(qubit)>>)

apply_SWAP(w, qubit1, qubit2) ==
    LET x_col == GetCol(w.t.xs, qubit1)
        z_col == GetCol(w.t.zs, qubit1)
        xs1   == SetCol(w.t.xs, qubit1, GetCol(w.t.xs, qubit2))
        xs2   == SetCol(xs1, qubit2, x_col)
        zs1   == SetCol(w.t.zs, qubit1, GetCol(w.t.zs, qubit2))
        zs2   == SetCol(zs1, qubit2, z_col)
    IN Record([w EXCEPT !.t.xs = xs2, !.t.zs = zs2],
              <<PyStr("SWAP"), PyList(<<PyInt(qubit1), PyInt(qubit2)>>)>>)

\* apply_CNOT with a fault: the Z update goes to the target, not the control.
apply_CNOT_z_on_target(w, qubit1, qubit2) ==
    LET xs1 == [r \in 1..Len(w.t.xs) |->
                  [w.t.xs[r] EXCEPT ![qubit2 + 1] = (@ # w.t.xs[r][qubit1 + 1])]]
        zs1 == [r \in 1..Len(w.t.zs) |->
                  [w.t.zs[r] EXCEPT ![qubit2 + 1] = (@ # w.t.zs[r][qubit1 + 1])]]
    IN Record([w EXCEPT !.t.xs = xs1, !.t.zs = zs1],
              <<PyStr("CNOT"), PyList(<<PyInt(qubit1), PyInt(qubit2)>>)>>)

apply_CNOT(w, qubit1, qubit2) ==
    LET x_col == GetCol(w.t.xs, qubit1)
        z_col == GetCol(w.t.zs, qubit2)
        xs1   == SetCol(w.t.xs, qubit2, ColXor(GetCol(w.t.xs, qubit2), x_col))
        zs1   == SetCol(w.t.zs, qubit1, ColXor(GetCol(w.t.zs, qubit1), z_col))
    IN Record([w EXCEPT !.t.xs = xs1, !.t.zs = zs1],
              <<PyStr("CNOT"), PyList(<<PyInt(qubit1), PyInt(qubit2)>>)>>)

(***************************************************************************)
(* The steps of one round of generate_random_Clifford.                     *)
(***************************************************************************)
\* The loop of _step1 from qubit i on; x and z are the rows copied on entry.
RECURSIVE step1_loop(_, _, _, _)
step1_loop(w, x, z, i) ==
    IF i >= w.t.n_qubits THEN w
    ELSE step1_loop(IF z[i + 1]
                    THEN IF x[i + 1] THEN apply_S(w, i) ELSE apply_H(w, i)
                    ELSE w,
                    x, z, i + 1)

\* _step1 with a fault: the two branches are exchanged (H where X is set).
RECURSIVE step1_loop_exchanged(_, _, _, _)
step1_loop_exchanged(w, x, z, i) ==
    IF i >= w.t.n_qubits THEN w
    ELSE step1_loop_exchanged(IF z[i + 1]
                              THEN IF x[i + 1] THEN apply_H(w, i) ELSE apply_S(w, i)
                              ELSE w,
                              x, z, i + 1)

_step1_exchanged(w, string_num) ==
    LET S == GetItem(w.t, string_num)
    IN step1_loop_exchanged(w, S.xs[1], S.zs[1], 0)

_step1(w, string_num) ==
    LET S == GetItem(w.t, string_num)
        z == S.zs[1]
        x == S.xs[1]
    IN step1_loop(w, x, z, 0)

\* row.nonzero()[0]: the 0-based positions of the True entries, ascending.
RECURSIVE NonZeroFrom(_, _)
NonZeroFrom(row, c) ==
    IF c > Len(row) THEN <<>>
    ELSE (IF row[c] THEN <<c - 1>> ELSE <<>>) \o NonZeroFrom(row, c + 1)

NonZero(row) == NonZeroFrom(row, 1)

\* np.delete with a fault: position 0 is deleted, not position 1.
Delete0(J) == Tail(J)

\* np.delete(J, 1)
Delete1(J) == <<J[1]>> \o SubSeq(J, 3, Len(J))

\* The loop of _step23 with a fault: the CNOT names the control twice.
RECURSIVE step23_loop_control_twice(_, _)
step23_loop_control_twice(w, J) ==
    IF Len(J) > 1 THEN step23_loop_control_twice(apply_CNOT(w, J[1], J[1]), Delete1(J))
    ELSE IF Len(J) = 0 THEN [w EXCEPT !.err = "IndexError"]
    ELSE apply_SWAP(w, 0, J[1])

\* The while loop of _step23 and the SWAP after it; J[0] of an empty J raises.
RECURSIVE step23_loop(_, _)
step23_loop(w, J) ==
    IF Len(J) > 1 THEN step23_loop(apply_CNOT(w, J[1], J[2]), Delete1(J))
    ELSE IF Len(J) = 0 THEN [w EXCEPT !.err = "IndexError"]
    ELSE apply_SWAP(w, 0, J[1])

_step23(w, string_num) ==
    LET S == GetItem(w.t, string_num)
        J == NonZero(S.xs[1])
    IN step23_loop(w, J)

_step4(w) ==
    LET x == <<[c \in 1..w.t.n_qubits |-> FALSE]>>
        z == <<[c \in 1..w.t.n_qubits |-> c = 1]>>
        canon == UnsignedTableau(BoolArr(x), BoolArr(z))
        A1(v) == _step1(v, 1)
        A2(v) == _step23(v, 1)
        A3(v) == apply_H(v, 0)
    IN IF ~TableauEq(GetItem(w.t, 1), canon)
       THEN Then(Then(Then(apply_H(w, 0), A1), A2), A3)
       ELSE w

\* _step5 with a fault: each sign bit applies a gate of its own.
_step5_two_gates(w, signs) ==
    LET v == IF signs[1] = 1 THEN apply_Z(w, 0) ELSE w
    IN IF signs[2] = 1 THEN apply_X(v, 0) ELSE v

\* signs is the pair drawn by np.random.choice([0,1], 2).
_step5(w, signs) ==
    IF signs[1] = 0
    THEN IF signs[2] = 1 THEN apply_X(w, 0) ELSE apply_I(w, 0)
    ELSE IF signs[2] = 1 THEN apply_Y(w, 0) ELSE apply_Z(w, 0)

\* All 1 x k matrices over {0, 1}: the values np.random.choice([0,1], (1,k)) takes.
RandomBits(k) == {<<row>> : row \in [1..k -> Bit]}

\* generate_random_Pauli(n_qubits), given the two arrays np.random.choice drew.
generate_random_Pauli(k, xdraw, zdraw) ==
    UnsignedTableau(NdArray("int64", xdraw), NdArray("int64", zdraw))

(***************************************************************************)
(* generate_random_Clifford(n_qubits) as a state machine.                  *)
(***************************************************************************)
None == [ty |-> "NoneType"]

\* The last method called, with its arguments and the exception it raised.
Call(name, args, err) == [op |-> name, args |-> args, err |-> err]

NoCall == Call("none", <<>>, "none")

\* What the last call gave back: nothing yet, a value, or a raised exception.
NoResult == [kind |-> "none", value |-> "none"]

Value(v) == [kind |-> "value", value |-> v]

Raised(e) == [kind |-> "raised", value |-> e]

\* compiled_circuit = CustomCircuit(); for n in range(n_qubits, 0, -1): ...
Init ==
    /\ heap = <<>>
    /\ n_qubits \in 1..MaxQubits
    /\ n = n_qubits
    /\ pc = "draw"
    /\ S1 = None /\ S2 = None /\ T = None
    /\ compiled_circuit = CustomCircuit
    /\ first = None /\ second = None /\ ret = NoResult /\ last = NoCall
    /\ progs = None

\* One evaluation of the while condition: two fresh Pauli rows are drawn and
\* the loop is left when they do not commute.
Draw ==
    /\ pc = "draw"
    /\ \E x1 \in RandomBits(n), z1 \in RandomBits(n),
          x2 \in RandomBits(n), z2 \in RandomBits(n) :
          LET p1 == generate_random_Pauli(n, x1, z1)
              p2 == generate_random_Pauli(n, x2, z2)
          IN /\ S1' = p1
             /\ S2' = p2
             /\ pc' = IF check_comm_strings(p1, p2) THEN "draw" ELSE "stack"
    /\ UNCHANGED <<heap, n_qubits, n, T, compiled_circuit,
                   first, second, ret, last, progs>>

\* T = S1 + S2
Stack ==
    /\ pc = "stack"
    /\ T' = TableauAdd(S1, S2)
    /\ pc' = "step1"
    /\ UNCHANGED <<heap, n_qubits, n, S1, S2, compiled_circuit,
                   first, second, ret, last, progs>>

\* The world after a step becomes the state; an exception ends the call.
Advance(w, next) ==
    /\ T' = w.t
    /\ heap' = w.heap
    /\ IF w.err = "none"
       THEN pc' = next /\ ret' = ret
       ELSE pc' = "raised" /\ ret' = Raised(w.err)
    /\ UNCHANGED <<n_qubits, n, S1, S2, compiled_circuit,
                   first, second, last, progs>>

\* T._step1(0)
Step1 == pc = "step1" /\ Advance(_step1(World(T, heap), 0), "step23")

\* T._step23(0)
Step23 == pc = "step23" /\ Advance(_step23(World(T, heap), 0), "step4")

\* T._step4()
Step4 == pc = "step4" /\ Advance(_step4(World(T, heap)), "step5")

\* T._step5()
Step5 ==
    /\ pc = "step5"
    /\ \E signs \in [1..2 -> Bit] : Advance(_step5(World(T, heap), signs), "append")

\* compiled_circuit += T.circuit.shift_qubits(n_qubits-n), then the next n, or
\* return compiled_circuit after the round for n = 1: the exhausted range
\* assigns nothing, n is still 1 at the return.
AppendRound ==
    /\ pc = "append"
    /\ heap' = shift_qubits(heap, T.circuit, n_qubits - n)
    /\ compiled_circuit' = CircuitAdd(compiled_circuit, T.circuit)
    /\ n' = IF n - 1 > 0 THEN n - 1 ELSE n
    /\ pc' = IF n - 1 > 0 THEN "draw" ELSE "done"
    /\ UNCHANGED <<n_qubits, S1, S2, T, first, second, ret, last, progs>>

Next == Draw \/ Stack \/ Step1 \/ Step23 \/ Step4 \/ Step5 \/ AppendRound

Spec == Init /\ [][Next]_vars

\* The interpreter keeps executing the call.  Outside the retry loop every
\* statement completes and moves pc on; in the loop the condition keeps being
\* evaluated, each time on a fresh pair, whatever the draws give.
StatementDone ==
    /\ pc \in {"stack", "step1", "step23", "step4", "step5", "append"}
    /\ pc' \in {"step1", "step23", "step4", "step5", "append", "draw", "done", "raised"}

\* Every row generate_random_Pauli(k) can return.
PauliRows(k) ==
    {generate_random_Pauli(k, x, z) : x \in RandomBits(k), z \in RandomBits(k)}

ConditionEvaluated == pc = "draw" /\ S1' \in PauliRows(n) /\ S2' \in PauliRows(n)

Progress == WF_pc(StatementDone) /\ WF_<<S1, S2>>(ConditionEvaluated)

RunSpec == Init /\ [][Next]_vars /\ Progress

\* Fair draws: a round does not draw commuting pairs forever.
LeaveRetryLoop == pc = "draw" /\ pc' = "stack"

FairDrawSpec == Init /\ [][Next]_vars /\ Progress /\ WF_pc(LeaveRetryLoop)

(***************************************************************************)
(* The gate steps of the first round (n = n_qubits), from every            *)
(* anti-commuting pair the retry loop can leave with.                      *)
(***************************************************************************)
RoundInit ==
    /\ heap = <<>>
    /\ n_qubits \in 1..MaxWindow
    /\ n = n_qubits
    /\ pc = "stack"
    /\ S1 \in PauliRows(n_qubits)
    /\ S2 \in PauliRows(n_qubits)
    /\ ~check_comm_strings(S1, S2)
    /\ T = None
    /\ compiled_circuit = CustomCircuit
    /\ first = None /\ second = None /\ ret = NoResult /\ last = NoCall
    /\ progs = None

RoundNext == Stack \/ Step1 \/ Step23 \/ Step4 \/ Step5

RoundSpec == RoundInit /\ [][RoundNext]_vars

(***************************************************************************)
(* The gate methods called on an arbitrary tableau.                        *)
(***************************************************************************)
\* The shapes (rows, columns) with at most `cells` entries.
Shapes(cells, cols) == {sh \in (1..cells) \X (1..cols) : sh[1] * sh[2] <= cells}

\* The r x c matrices of 0/1 integers, as a test writes them.
IntMatrices(r, c) == [1..r -> [1..c -> Bit]]

\* Every tableau the constructor builds from 0/1 matrices of these shapes.
Tableaus(cells, cols) ==
    UNION {{UnsignedTableau(NdArray("int64", x), NdArray("int64", z)) :
               x \in IntMatrices(sh[1], sh[2]), z \in IntMatrices(sh[1], sh[2])} :
           sh \in Shapes(cells, cols)}

Unused ==
    /\ n_qubits = 0 /\ n = 0
    /\ S1 = None /\ S2 = None
    /\ compiled_circuit = CustomCircuit

GateInit ==
    /\ heap = <<>>
    /\ T \in Tableaus(MaxGateCells, MaxGateCols)
    /\ pc = "gates"
    /\ last = NoCall
    /\ first = None /\ second = None /\ ret = NoResult /\ progs = None
    /\ Unused

\* The world after a gate method becomes the state.
GateDone(w, name, args) ==
    /\ Len(T.circuit) < MaxGates
    /\ T' = w.t
    /\ heap' = w.heap
    /\ last' = Call(name, args, w.err)
    /\ UNCHANGED <<n_qubits, n, pc, S1, S2, compiled_circuit,
                   first, second, ret, progs>>

Qubits == 0..(T.n_qubits - 1)

ApplyX == \E q \in Qubits : GateDone(apply_X(World(T, heap), q), "apply_X", <<q>>)

ApplyY == \E q \in Qubits : GateDone(apply_Y(World(T, heap), q), "apply_Y", <<q>>)

ApplyZ == \E q \in Qubits : GateDone(apply_Z(World(T, heap), q), "apply_Z", <<q>>)

ApplyI == \E q \in Qubits : GateDone(apply_I(World(T, heap), q), "apply_I", <<q>>)

ApplyH == \E q \in Qubits : GateDone(apply_H(World(T, heap), q), "apply_H", <<q>>)

ApplyS == \E q \in Qubits : GateDone(apply_S(World(T, heap), q), "apply_S", <<q>>)

ApplySWAP ==
    \E q1 \in Qubits, q2 \in Qubits :
        GateDone(apply_SWAP(World(T, heap), q1, q2), "apply_SWAP", <<q1, q2>>)

ApplyCNOT ==
    \E q1 \in Qubits, q2 \in Qubits :
        GateDone(apply_CNOT(World(T, heap), q1, q2), "apply_CNOT", <<q1, q2>>)

GateNext ==
    \/ ApplyX \/ ApplyY \/ ApplyZ \/ ApplyI
    \/ ApplyH \/ ApplyS \/ ApplySWAP \/ ApplyCNOT

GateSpec == GateInit /\ [][GateNext]_vars

(***************************************************************************)
(* The gate methods wherever they are called: on an arbitrary tableau, or  *)
(* by the steps of a round on T = S1 + S2.                                 *)
(***************************************************************************)
GateRoundInit == GateInit \/ RoundInit

GateRoundNext ==
    \/ pc = "gates" /\ ApplyX
    \/ pc = "gates" /\ ApplyY
    \/ pc = "gates" /\ ApplyZ
    \/ pc = "gates" /\ ApplyI
    \/ pc = "gates" /\ ApplyH
    \/ pc = "gates" /\ ApplyS
    \/ pc = "gates" /\ ApplySWAP
    \/ pc = "gates" /\ ApplyCNOT
    \/ Stack \/ Step1 \/ Step23 \/ Step4 \/ Step5

GateRoundSpec == GateRoundInit /\ [][GateRoundNext]_vars

(***************************************************************************)
(* commutes called on two arbitrary tableaus.                              *)
(***************************************************************************)
CommInit ==
    /\ first \in Tableaus(MaxCells, MaxCells)
    /\ second \in Tableaus(MaxCells, MaxCells)
    /\ ret = NoResult
    /\ last = NoCall
    /\ pc = "commutes"
    /\ heap = <<>> /\ T = None /\ progs = None
    /\ Unused

\* The value a.commutes(b) returns, or the error numpy raises for operands
\* that do not broadcast.
CallCommutes(a, b) ==
    IF CommDefined(a, b) THEN Value(commutes(a, b))
    ELSE Raised("ValueError")

\* first.commutes(second)
Commutes ==
    /\ ret' = CallCommutes(first, second)
    /\ last' = Call("commutes", <<"first", "second">>,
                     IF CommDefined(first, second) THEN "none" ELSE "ValueError")
    /\ UNCHANGED <<heap, n_qubits, n, pc, S1, S2, T, compiled_circuit,
                   first, second, progs>>

\* second.commutes(first)
CommutesReversed ==
    /\ ret' = CallCommutes(second, first)
    /\ last' = Call("commutes", <<"second", "first">>,
                     IF CommDefined(second, first) THEN "none" ELSE "ValueError")
    /\ UNCHANGED <<heap, n_qubits, n, pc, S1, S2, T, compiled_circuit,
                   first, second, progs>>

CommNext == Commutes \/ CommutesReversed

CommSpec == CommInit /\ [][CommNext]_vars

(***************************************************************************)
(* The other public operations of a tableau, called on two arbitrary       *)
(* tableaus: `first` is the receiver, `second` the argument, T the tableau  *)
(* the last operation returned.                                            *)
(***************************************************************************)
\* XZ_DICT[str(int(el_x)) + str(int(el_z))]
XZ_DICT(x, z) == IF x THEN (IF z THEN "Y" ELSE "X") ELSE (IF z THEN "Z" ELSE "I")

\* get_string_from_row(x, z): the Pauli labels of one row, qubit by qubit.
get_string_from_row(x, z) == [c \in 1..Len(x) |-> XZ_DICT(x[c], z[c])]

\* to_string(): one string per row of xs.
to_string(self) ==
    [r \in 1..Len(self.xs) |-> get_string_from_row(self.xs[r], self.zs[r])]

\* stack(other): self.xs and self.zs are rebound to the stacked arrays (np.vstack
\* raises for operands of different widths); no other field is assigned.
stack(self, other) ==
    IF Len(self.xs[1]) # Len(other.xs[1])
    THEN [t |-> self, err |-> "ValueError"]
    ELSE [t |-> [self EXCEPT !.xs = self.xs \o other.xs,
                             !.zs = self.zs \o other.zs],
          err |-> "none"]

\* __mul__(other) for operands that broadcast.
TableauMul(self, other) ==
    UnsignedTableau(BoolArr(bitwise_xor(self.xs, other.xs)),
                    BoolArr(bitwise_xor(self.zs, other.zs)))

\* __getitem__(slice(lo, hi)) for 0 <= lo < hi <= rows: a new tableau holding a
\* copy of rows lo .. hi-1.
GetSlice(self, lo, hi) ==
    UnsignedTableau(BoolArr(SubSeq(self.xs, lo + 1, hi)),
                    BoolArr(SubSeq(self.zs, lo + 1, hi)))

TabInit ==
    /\ first \in Tableaus(MaxTabCells, MaxTabCells)
    /\ second \in Tableaus(MaxTabCells, MaxTabCells)
    /\ T = None
    /\ ret = NoResult
    /\ last = NoCall
    /\ pc = "tableaus"
    /\ heap = <<>> /\ progs = None
    /\ Unused

\* An operation that returns a new tableau, or raises and returns nothing.
TabReturns(name, args, ok, t, e) ==
    /\ T' = IF ok THEN t ELSE T
    /\ last' = Call(name, args, IF ok THEN "none" ELSE e)
    /\ UNCHANGED <<heap, n_qubits, n, pc, S1, S2, compiled_circuit,
                   first, second, ret, progs>>

\* An operation that returns a value other than a tableau, or raises.
TabValue(name, ok, v, e) ==
    /\ ret' = IF ok THEN Value(v) ELSE Raised(e)
    /\ last' = Call(name, <<>>, IF ok THEN "none" ELSE e)
    /\ UNCHANGED <<heap, n_qubits, n, pc, S1, S2, T, compiled_circuit,
                   first, second, progs>>

\* first.stack(second)
TabStack ==
    /\ Len(first.xs) + Len(second.xs) <= MaxRows
    /\ first' = stack(first, second).t
    /\ last' = Call("stack", <<>>, stack(first, second).err)
    /\ UNCHANGED <<heap, n_qubits, n, pc, S1, S2, T, compiled_circuit,
                   second, ret, progs>>

\* T = first + second
TabAdd ==
    TabReturns("__add__", <<>>, Len(first.xs[1]) = Len(second.xs[1]),
               TableauAdd(first, second), "ValueError")

\* T = first * second
TabMul ==
    TabReturns("__mul__", <<>>, Broadcastable(first.xs, second.xs),
               TableauMul(first, second), "ValueError")

\* T = first[item]; an item past the last row raises IndexError.
TabGetItem ==
    \E item \in 0..Len(first.xs) :
        TabReturns("__getitem__", <<item, item + 1>>, item < Len(first.xs),
                   GetItem(first, item), "IndexError")

\* T = first[lo:hi]
TabGetSlice ==
    \E lo \in 0..(Len(first.xs) - 1), hi \in 1..Len(first.xs) :
        /\ lo < hi
        /\ TabReturns("__getitem__", <<lo, hi>>, TRUE, GetSlice(first, lo, hi), "none")

\* first.commutes(second)
TabCommutes ==
    TabValue("commutes", CommDefined(first, second), commutes(first, second),
             "ValueError")

\* first.to_string()
TabToString == TabValue("to_string", TRUE, to_string(first), "none")

\* first == second.  For shapes that do not broadcast the comparison raises:
\* ValueError from ==, or AttributeError from .all() on the False an older
\* numpy returns.
TabEq ==
    \E e \in {"ValueError", "AttributeError"} :
        TabValue("__eq__", EqDefined(first, second), TableauEq(first, second), e)

\* first.apply_H(q)
TabApplyH ==
    \E q \in 0..(first.n_qubits - 1) :
        LET w == apply_H(World(first, heap), q)
        IN /\ Len(heap) < MaxTabGates
           /\ first' = w.t
           /\ heap' = w.heap
           /\ last' = Call("apply_H", <<"first", q>>, w.err)
           /\ UNCHANGED <<n_qubits, n, pc, S1, S2, T, compiled_circuit,
                          second, ret, progs>>

\* T.apply_H(q), on the tableau the last operation returned.
TabApplyHResult ==
    /\ T # None
    /\ \E q \in 0..(T.n_qubits - 1) :
          LET w == apply_H(World(T, heap), q)
          IN /\ Len(heap) < MaxTabGates
             /\ T' = w.t
             /\ heap' = w.heap
             /\ last' = Call("apply_H", <<"T", q>>, w.err)
             /\ UNCHANGED <<n_qubits, n, pc, S1, S2, compiled_circuit,
                            first, second, ret, progs>>

TabNext ==
    \/ TabStack \/ TabAdd \/ TabMul \/ TabGetItem \/ TabGetSlice
    \/ TabCommutes \/ TabToString \/ TabEq
    \/ TabApplyH \/ TabApplyHResult

TabSpec == TabInit /\ [][TabNext]_vars

(***************************************************************************)
(* CustomCircuit programs built by add_gate, shift_qubits and +.           *)
(***************************************************************************)
Names == {"a", "b", "c"}

\* The arguments add_gate is called with: well-formed entries, and entries
\* with a missing part, a name that is no str, an index that is no int or is
\* a str (an iterable of one-character strings).
Ops == {<<PyStr("H"), PyInt(0)>>,
        <<PyStr("CNOT"), PyList(<<PyInt(0), PyInt(1)>>)>>,
        <<PyStr(""), PyInt(0)>>,
        <<PyStr("H"), PyList(<<>>)>>,
        <<PyStr("H")>>,
        <<PyInt(1), PyInt(0)>>,
        <<PyStr("H"), PyFloat>>,
        <<PyStr("H"), PyStr("")>>,
        <<PyStr("H"), PyStr("ab")>>,
        <<PyStr("H"), PyList(<<PyInt(0), PyFloat>>)>>}

CircInit ==
    /\ heap = <<>>
    /\ progs = [p \in Names |-> CustomCircuit]
    /\ last = NoCall
    /\ pc = "circuits"
    /\ first = None /\ second = None /\ ret = NoResult /\ T = None
    /\ Unused

\* progs[p].add_gate(op)
AddGate ==
    \E p \in Names, op \in Ops :
        LET r == add_gate(heap, progs[p], op)
        IN /\ Len(heap) < MaxEntries
           /\ heap' = r.heap
           /\ progs' = [progs EXCEPT ![p] = r.circuit]
           /\ last' = Call("add_gate", <<p, op>>, r.err)
           /\ UNCHANGED <<n_qubits, n, pc, S1, S2, T, compiled_circuit,
                          first, second, ret>>

\* progs[p].shift_qubits(k)
ShiftQubits ==
    \E p \in Names, k \in 1..MaxShift :
        /\ progs[p] # <<>>
        /\ \A a \in 1..Len(progs[p]) :
               \A j \in 1..Len(heap[progs[p][a]].idxs) :
                   heap[progs[p][a]].idxs[j] <= MaxIndex
        /\ heap' = shift_qubits(heap, progs[p], k)
        /\ last' = Call("shift_qubits", <<p, k>>, "none")
        /\ UNCHANGED <<n_qubits, n, pc, S1, S2, T, compiled_circuit,
                       first, second, ret, progs>>

\* progs[r] = progs[p] + progs[q]; with r = p this is progs[p] += progs[q].
Concat ==
    \E p \in Names, q \in Names, r \in Names :
        /\ Len(progs[p]) + Len(progs[q]) <= MaxLen
        /\ progs' = [progs EXCEPT ![r] = CircuitAdd(progs[p], progs[q])]
        /\ last' = Call("__add__", <<p, q, r>>, "none")
        /\ UNCHANGED <<heap, n_qubits, n, pc, S1, S2, T, compiled_circuit,
                       first, second, ret>>

CircNext == AddGate \/ ShiftQubits \/ Concat

CircSpec == CircInit /\ [][CircNext]_vars

(***************************************************************************)
(* Properties of generate_random_Clifford.                                 *)
(***************************************************************************)
GateNames == {"H", "S", "SWAP", "CNOT", "X", "Y", "Z"}

\* The program the call has returned.
Returned == Entries(heap, compiled_circuit)

\* C1: every entry of the program returned by generate_random_Clifford(n_qubits)
\* has a gate name in {H, S, SWAP, CNOT, X, Y, Z} and all of its qubit indices
\* lie in [0, n_qubits).
C1_EntriesInRange ==
    pc = "done" =>
        \A k \in 1..Len(Returned) :
            /\ Returned[k].name \in GateNames
            /\ \A j \in 1..Len(Returned[k].idxs) :
                   Returned[k].idxs[j] \in 0..(n_qubits - 1)

\* A returned program of a call on more than one qubit that holds a CNOT and
\* a gate on the last qubit.
C1_Witness ==
    /\ pc = "done"
    /\ n_qubits > 1
    /\ \E k \in 1..Len(Returned) : Returned[k].name = "CNOT"
    /\ \E k \in 1..Len(Returned) : Returned[k].idxs = <<n_qubits - 1>>

\* C2: under fair draws the call never raises (the X support J is never empty
\* at SWAP(0, J[0])) and eventually returns a program with at least one entry.
C2_TerminatesNonEmpty ==
    /\ [](pc # "raised")
    /\ <>(pc = "done" /\ Len(compiled_circuit) >= 1)

\* A call on more than one qubit has returned a non-empty program.
C2_Witness == pc = "done" /\ n_qubits > 1 /\ Len(compiled_circuit) >= 1

\* C3: the round on a window of n qubits records at most n entries in _step1(0),
\* n in _step23(0), 2n+2 in _step4 and 1 in _step5, 4n+3 in all, and the
\* returned program has at most 2*n_qubits^2 + 5*n_qubits <= 7*n_qubits^2 entries.
C3_GateCountBounded ==
    /\ pc = "step23" => Len(T.circuit) <= n
    /\ pc = "step4" => Len(T.circuit) <= 2 * n
    /\ pc = "step5" => Len(T.circuit) <= 4 * n + 2
    /\ pc = "append" => Len(T.circuit) <= 4 * n + 3
    /\ pc = "done" =>
           /\ Len(compiled_circuit) <= 2 * n_qubits * n_qubits + 5 * n_qubits
           /\ Len(compiled_circuit) <= 7 * n_qubits * n_qubits

\* A returned program that attains the bound 2*n_qubits^2 + 5*n_qubits.
C3_Witness ==
    /\ pc = "done"
    /\ n_qubits > 1
    /\ Len(compiled_circuit) = 2 * n_qubits * n_qubits + 5 * n_qubits

\* C4: the retry loop is capped: the call does not stay in the loop that draws
\* (S1, S2) forever, it leaves it or fails after a maximum number of attempts.
C4_RetryLoopCapped == []<>(pc # "draw")

(***************************************************************************)
(* Properties of commutes.                                                 *)
(***************************************************************************)
\* The operands of the last commutes call, receiver first.
Receiver == IF last.args[1] = "first" THEN first ELSE second

Argument == IF last.args[1] = "first" THEN second ELSE first

\* C5: commutes is symmetric: when A.commutes(B) returns a value, B.commutes(A)
\* returns the same value, whatever the row and qubit counts of A and B.
C5_CommutesSymmetric ==
    (last.op = "commutes" /\ ret.kind = "value") =>
        CallCommutes(Argument, Receiver) = ret

\* The positions (row, qubit) where (x_A AND z_B) XOR (x_B AND z_A) is 1, for
\* tableaus of equal shape.
OddPositions(a, b) ==
    {rq \in (1..Len(a.xs)) \X (1..Len(a.xs[1])) :
        (a.xs[rq[1]][rq[2]] /\ b.zs[rq[1]][rq[2]])
            # (b.xs[rq[1]][rq[2]] /\ a.zs[rq[1]][rq[2]])}

ParityCommutes(a, b) == Cardinality(OddPositions(a, b)) % 2 = 0

SingleRows ==
    /\ Len(first.xs) = 1 /\ Len(second.xs) = 1
    /\ Len(first.xs[1]) = Len(second.xs[1])

\* C6: for two single-row tableaus over the same n qubits, commutes is true
\* exactly when the number of qubits with (x_A AND z_B) XOR (x_B AND z_A) = 1 is
\* even, and a single-row tableau commutes with itself.
C6_SingleRowParity ==
    (last.op = "commutes" /\ SingleRows) =>
        /\ ret.kind = "value"
        /\ ret.value = ParityCommutes(Receiver, Argument)
        /\ first = second => ret.value

\* Two rows over an odd number (more than one) of qubits that anti-commute.
C6_Witness ==
    /\ last.op = "commutes" /\ SingleRows
    /\ Len(first.xs[1]) % 2 = 1 /\ Len(first.xs[1]) > 1
    /\ ret.kind = "value" /\ ~ret.value

\* C7: for tableaus of equal shape, with any number of rows and an even or odd
\* number of qubits, commutes returns what the single-XOR-parity formulation
\* gives: true exactly when the XOR matrix has an even number of 1 entries.
C7_SameAsParity ==
    (last.op = "commutes" /\ Shape(first.xs) = Shape(second.xs)) =>
        /\ ret.kind = "value"
        /\ ret.value = ParityCommutes(Receiver, Argument)

(***************************************************************************)
(* Properties of the gate methods.                                         *)
(***************************************************************************)
\* The program attached to the tableau.
Recorded == Entries(heap, T.circuit)

\* The last call appended exactly this entry to the attached program.
AppendsEntry(name, idxs) ==
    /\ last'.err = "none"
    /\ Recorded' = Append(Recorded, [name |-> name, idxs |-> idxs])

Cells == (1..Len(T.xs)) \X (1..Len(T.xs[1]))

SameShape == Shape(T'.xs) = Shape(T.xs) /\ Shape(T'.zs) = Shape(T.zs)

XorB(a, b) == (a /\ ~b) \/ (~a /\ b)

\* What a step of each gate method does to xs, zs and the program, cell by cell
\* (rc[1] is the row, rc[2] - 1 the qubit).
GateEffect ==
    LET q1 == last'.args[1] + 1
        q2 == last'.args[Len(last'.args)] + 1
        x(r, c) == T.xs[r][c]
        z(r, c) == T.zs[r][c]
    IN /\ SameShape
       /\ last'.op = "apply_H" =>
             /\ \A rc \in Cells :
                   /\ T'.xs[rc[1]][rc[2]] =
                        IF rc[2] = q1 THEN z(rc[1], q1) ELSE x(rc[1], rc[2])
                   /\ T'.zs[rc[1]][rc[2]] =
                        IF rc[2] = q1 THEN x(rc[1], q1) ELSE z(rc[1], rc[2])
             /\ AppendsEntry("H", <<q1 - 1>>)
       /\ last'.op = "apply_S" =>
             /\ T'.xs = T.xs
             /\ \A rc \in Cells :
                   T'.zs[rc[1]][rc[2]] =
                     IF rc[2] = q1 THEN XorB(z(rc[1], q1), x(rc[1], q1))
                     ELSE z(rc[1], rc[2])
             /\ AppendsEntry("S", <<q1 - 1>>)
       /\ last'.op = "apply_SWAP" =>
             /\ \A rc \in Cells :
                   /\ T'.xs[rc[1]][rc[2]] =
                        IF rc[2] = q1 THEN x(rc[1], q2)
                        ELSE IF rc[2] = q2 THEN x(rc[1], q1) ELSE x(rc[1], rc[2])
                   /\ T'.zs[rc[1]][rc[2]] =
                        IF rc[2] = q1 THEN z(rc[1], q2)
                        ELSE IF rc[2] = q2 THEN z(rc[1], q1) ELSE z(rc[1], rc[2])
             /\ AppendsEntry("SWAP", <<q1 - 1, q2 - 1>>)
       /\ (last'.op = "apply_CNOT" /\ q1 # q2) =>
             /\ \A rc \in Cells :
                   /\ T'.xs[rc[1]][rc[2]] =
                        IF rc[2] = q2 THEN XorB(x(rc[1], q2), x(rc[1], q1))
                        ELSE x(rc[1], rc[2])
                   /\ T'.zs[rc[1]][rc[2]] =
                        IF rc[2] = q1 THEN XorB(z(rc[1], q1), z(rc[1], q2))
                        ELSE z(rc[1], rc[2])
             /\ AppendsEntry("CNOT", <<q1 - 1, q2 - 1>>)
       /\ last'.op = "apply_CNOT" => AppendsEntry("CNOT", <<q1 - 1, q2 - 1>>)
       /\ last'.op \in {"apply_X", "apply_Y", "apply_Z"} =>
             /\ T'.xs = T.xs /\ T'.zs = T.zs
             /\ AppendsEntry(CASE last'.op = "apply_X" -> "X"
                               [] last'.op = "apply_Y" -> "Y"
                               [] last'.op = "apply_Z" -> "Z",
                             <<q1 - 1>>)
       /\ last'.op = "apply_I" =>
             /\ T'.xs = T.xs /\ T'.zs = T.zs
             /\ last'.err = "none"
             /\ Recorded' = Recorded

\* C8: each gate method has exactly the effect of its table row on every row of
\* the tableau, changes no other column, and appends exactly one entry (its name
\* and its qubit indices in argument order) to the end of the attached program;
\* I changes nothing and appends nothing.
C8_GateEffects == [][GateEffect]_vars

\* A CNOT on two distinct qubits has been applied to a tableau of several rows
\* whose program already held an entry.
C8_Witness ==
    /\ last.op = "apply_CNOT"
    /\ last.args[1] # last.args[2]
    /\ Len(T.xs) > 1
    /\ Len(T.circuit) > 1

Twice(w0, w2) == w2.t.xs = w0.t.xs /\ w2.t.zs = w0.t.zs

\* C9: apply_H(q) twice, apply_S(q) twice and apply_SWAP(q1, q2) twice (q1, q2
\* equal or distinct) restore the xs and zs of every tableau.
C9_AppliedTwiceRestores ==
    pc = "gates" =>
        LET w == World(T, heap)
        IN /\ \A q \in Qubits : Twice(w, apply_H(apply_H(w, q), q))
           /\ \A q \in Qubits : Twice(w, apply_S(apply_S(w, q), q))
           /\ \A q1 \in Qubits, q2 \in Qubits :
                  Twice(w, apply_SWAP(apply_SWAP(w, q1, q2), q1, q2))

\* A tableau reached by a gate method that one more apply_S, one more apply_H
\* and one more apply_SWAP each change.
C9_Witness ==
    /\ pc = "gates"
    /\ last.op \in {"apply_H", "apply_S", "apply_SWAP"}
    /\ \E q \in Qubits : apply_S(World(T, heap), q).t.zs # T.zs
    /\ \E q \in Qubits : apply_H(World(T, heap), q).t.xs # T.xs
    /\ \E q1 \in Qubits, q2 \in Qubits : apply_SWAP(World(T, heap), q1, q2).t.xs # T.xs

(***************************************************************************)
(* Properties of CustomCircuit.                                            *)
(***************************************************************************)
\* A step of shift_qubits(k) on program p adds k to every index of every entry
\* of p and keeps the names, the number of entries and their order.
ShiftEffect ==
    last'.op = "shift_qubits" =>
        LET p == last'.args[1]
            k == last'.args[2]
            before == Entries(heap, progs[p])
            after == Entries(heap', progs'[p])
        IN /\ Len(after) = Len(before)
           /\ \A e \in 1..Len(before) :
                 /\ after[e].name = before[e].name
                 /\ Len(after[e].idxs) = Len(before[e].idxs)
                 /\ \A j \in 1..Len(before[e].idxs) :
                       after[e].idxs[j] = before[e].idxs[j] + k

\* C10: for every program reachable by add_gate, concatenation (a program with
\* itself included) and shift_qubits, shift_qubits(k) adds exactly k to every
\* qubit index of every entry and leaves names, length and order unchanged.
C10_ShiftAddsK == [][ShiftEffect]_vars

\* Every entry a program shows has a gate name and at least one qubit index
\* (the indices stored by add_gate are integers), and a rejected add_gate call
\* changes no program and no entry.
WellFormedStep ==
    /\ \A p \in Names :
           \A e \in 1..Len(progs'[p]) :
               /\ Entries(heap', progs'[p])[e].name # ""
               /\ Len(Entries(heap', progs'[p])[e].idxs) >= 1
    /\ (last'.op = "add_gate" /\ last'.err # "none") =>
           (progs' = progs /\ heap' = heap)

\* C11: after any sequence of add_gate calls (accepted or rejected), shifts and
\* concatenations every stored entry has a non-empty gate name and a non-empty
\* list of integer qubit indices; an add_gate call that would break this is
\* rejected with an error and leaves the program unchanged.
C11_EntriesWellFormed == [][WellFormedStep]_vars

(***************************************************************************)
(* Properties of the other tableau operations.                             *)
(***************************************************************************)
\* C12: A == B is true if and only if A.xs, B.xs and A.zs, B.zs are element-wise
\* identical (same shape, same bit in every position); tableaus with different
\* numbers of rows or columns are never equal.
C12_EqIffIdentical ==
    (last.op = "__eq__" /\ ret.kind = "value") =>
        ret.value = (first.xs = second.xs /\ first.zs = second.zs)

\* What a step may change: only apply_H on the receiver changes the receiver,
\* nothing changes the argument, the receiver's n_rows and n_qubits are the row
\* and column count of its xs, indexing returns the selected rows with an empty
\* program, and a gate on either of the receiver and the returned tableau
\* leaves the other alone.
FrameStep ==
    /\ second' = second
    /\ ~(last'.op = "apply_H" /\ last'.args[1] = "first") => first' = first
    /\ first'.n_rows = Len(first'.xs)
    /\ first'.n_qubits = Len(first'.xs[1])
    /\ (last'.op = "__getitem__" /\ last'.err = "none") =>
           /\ T'.xs = SubSeq(first.xs, last'.args[1] + 1, last'.args[2])
           /\ T'.zs = SubSeq(first.zs, last'.args[1] + 1, last'.args[2])
           /\ T'.circuit = CustomCircuit
    /\ (last'.op = "apply_H" /\ last'.args[1] = "first") => T' = T

\* C13: only the apply_* gate methods mutate an existing tableau: indexing, +,
\* *, stack, commutes, to_string and == leave the receiver's xs, zs, n_rows and
\* n_qubits unchanged, so n_rows and n_qubits are the row and column count of xs;
\* rows extracted by indexing form a new tableau with its own empty program, and
\* gates applied to either tableau do not change the other.
C13_OnlyGatesMutate == [][FrameStep]_vars

(***************************************************************************)
(* Properties of a round of generate_random_Clifford.                      *)
(***************************************************************************)
\* The row of n bits that is 1 on qubit 0 only, and the all-zero row.
OnQubit0 == [c \in 1..n |-> c = 1]

Zeros == [c \in 1..n |-> FALSE]

\* C14: for every anti-commuting pair over the round's n qubits, T = S1 + S2 has
\* an all-zero Z part in row 0 after _step1(0), row 0 is X on qubit 0 only
\* after _step23(0), and after _step4 row 1 is Z on qubit 0 only while row 0
\* is still X on qubit 0 only.
C14_CanonicalForm ==
    /\ pc = "step23" => T.zs[1] = Zeros
    /\ pc = "step4" => (T.xs[1] = OnQubit0 /\ T.zs[1] = Zeros)
    /\ pc \in {"step5", "append"} =>
           /\ T.xs[1] = OnQubit0 /\ T.zs[1] = Zeros
           /\ T.xs[2] = Zeros /\ T.zs[2] = OnQubit0

\* A round on at least three qubits has finished _step4 from a pair whose first
\* row had X or Y on every qubit (so _step23 ran its loop at least twice) and
\* whose second row needed the H ... H branch of _step4 (the last entry is the
\* closing H on qubit 0).
C14_Witness ==
    /\ pc = "step5"
    /\ n >= 3
    /\ \A c \in 1..n : S1.xs[1][c]
    /\ Len(T.circuit) >= n + 3
    /\ Entries(heap, T.circuit)[Len(T.circuit)] = [name |-> "H", idxs |-> <<0>>]

\* The entries `es` with every qubit index moved by k.
Shifted(es, k) ==
    [e \in 1..Len(es) |->
        [name |-> es[e].name,
         idxs |-> [j \in 1..Len(es[e].idxs) |-> es[e].idxs[j] + k]]]

\* What a step does to the accumulated program: the statement at "append", in
\* the round for window n, appends the entries recorded on T with their local
\* indices moved by n_qubits - n, all within [n_qubits - n, n_qubits), and moves
\* on to n - 1, or returns after the round for n = 1 (n stays 1); no other
\* statement changes n or the program; the entries
\* accumulated before stay as they are.
AppendEffect ==
    LET local == Entries(heap, T.circuit)
        new == SubSeq(Returned', Len(Returned) + 1, Len(Returned'))
    IN /\ Len(Returned') >= Len(Returned)
       /\ SubSeq(Returned', 1, Len(Returned)) = Returned
       /\ pc # "append" => (n' = n /\ Returned' = Returned)
       /\ pc = "append" =>
             /\ IF n > 1 THEN n' = n - 1 /\ pc' = "draw"
                         ELSE n' = n /\ pc' = "done"
             /\ new = Shifted(local, n_qubits - n)
             /\ \A e \in 1..Len(new) : \A j \in 1..Len(new[e].idxs) :
                    new[e].idxs[j] \in (n_qubits - n)..(n_qubits - 1)
       /\ pc' = "done" => n' = 1

\* C15: the rounds run for n = n_qubits down to 1; the round for window n
\* appends only entries whose indices lie in [n_qubits - n, n_qubits) (the local
\* indices shifted by n_qubits - n, once), and the entries of earlier rounds
\* stay an unchanged prefix of the result.
C15_RoundsAppendShifted == [][AppendEffect]_vars

\* A call on more than one qubit has returned: the program starts with an entry
\* of the first round on qubit 0 and ends with an entry of the last round on the
\* last qubit.
C15_Witness ==
    /\ pc = "done"
    /\ n_qubits > 1
    /\ n = 1
    /\ Len(Returned) >= 3
    /\ 0 \in {Returned[1].idxs[j] : j \in 1..Len(Returned[1].idxs)}
    /\ Returned[Len(Returned)].idxs = <<n_qubits - 1>>

\* C16: every two-qubit entry (SWAP or CNOT) of the program returned by
\* generate_random_Clifford names two distinct qubits; no SWAP q q or CNOT q q
\* is emitted.
C16_TwoQubitDistinct ==
    pc = "done" =>
        \A k \in 1..Len(Returned) :
            Returned[k].name \in {"SWAP", "CNOT"} =>
                Returned[k].idxs[1] # Returned[k].idxs[2]

\* C16, amended: every CNOT entry of the returned program names two distinct
\* qubits, the control below the target; a SWAP entry names the first qubit of
\* its round's window (local qubit 0 when the round's entries are appended)
\* and a qubit that is the same or above it, so SWAP q q is emitted.
C16_CnotDistinct ==
    /\ pc = "done" =>
           \A k \in 1..Len(Returned) :
               /\ Returned[k].name = "CNOT" =>
                      (Len(Returned[k].idxs) = 2
                          /\ Returned[k].idxs[1] < Returned[k].idxs[2])
               /\ Returned[k].name = "SWAP" =>
                      (Len(Returned[k].idxs) = 2
                          /\ Returned[k].idxs[1] <= Returned[k].idxs[2])
    /\ pc = "append" =>
           \A k \in 1..Len(T.circuit) :
               Entries(heap, T.circuit)[k].name = "SWAP" =>
                   Entries(heap, T.circuit)[k].idxs[1] = 0

\* A returned program that holds a CNOT, a SWAP of two distinct qubits and a
\* SWAP q q.
C16_Witness ==
    /\ pc = "done"
    /\ \E k \in 1..Len(Returned) : Returned[k].name = "CNOT"
    /\ \E k \in 1..Len(Returned) :
           Returned[k].name = "SWAP" /\ Returned[k].idxs[1] # Returned[k].idxs[2]
    /\ \E k \in 1..Len(Returned) :
           Returned[k].name = "SWAP" /\ Returned[k].idxs[1] = Returned[k].idxs[2]

(***************************************************************************)
(* Properties of concatenation.                                            *)
(***************************************************************************)
\* What a step does to the programs it is not called on: r = p + q makes r show
\* p's entries and then q's, in order; shift_qubits and add_gate on one program
\* leave the entries every other program shows as they were.
ConcatIndependent ==
    /\ last'.op = "__add__" =>
           Entries(heap', progs'[last'.args[3]]) =
               Entries(heap, progs[last'.args[1]]) \o Entries(heap, progs[last'.args[2]])
    /\ last'.op \in {"shift_qubits", "add_gate"} =>
           \A r \in Names \ {last'.args[1]} :
               Entries(heap', progs'[r]) = Entries(heap, progs[r])

\* C17: after c = a + b (a's entries first, then b's, in order) any later
\* shift_qubits or add_gate on a or on b leaves the entries of c unchanged, and
\* any later shift_qubits or add_gate on c leaves the entries of a and of b
\* unchanged.
C17_ConcatIndependent == [][ConcatIndependent]_vars

(***************************************************************************)
(* The gate methods and the commutation relation.                          *)
(***************************************************************************)
\* commutes(row i, row j) of tableau t (i, j 0-based).
RowsCommute(t, i, j) == commutes(GetItem(t, i), GetItem(t, j))

InRound == pc \in {"step1", "step23", "step4", "step5", "append"}

\* A step that takes a tableau of at least two rows to a tableau of the same
\* shape (a gate method called on an arbitrary tableau, or a step of a round,
\* which is a sequence of gate methods) keeps commutes(row i, row j) for every
\* pair of rows; CNOT with control = target is excepted.
CommPreserved ==
    (/\ T # None /\ T' # None
     /\ Len(T.xs) >= 2
     /\ ~(last'.op = "apply_CNOT" /\ last'.args[1] = last'.args[2])) =>
        \A i \in 0..(Len(T.xs) - 1), j \in 0..(Len(T.xs) - 1) :
            RowsCommute(T', i, j) = RowsCommute(T, i, j)

\* C18: apply_H, apply_S, apply_SWAP, apply_CNOT with control # target and
\* apply_X/Y/Z/I keep the value of commutes(row i, row j) for every pair of
\* rows of every tableau with at least two rows; the two rows of T anti-commute
\* in every state of a generate_random_Clifford round.
C18_CommutationPreserved ==
    /\ [][CommPreserved]_vars
    /\ [](InRound => ~RowsCommute(T, 0, 1))

\* A round on more than one qubit has finished _step4 after its steps applied
\* H, S, SWAP and a CNOT on two distinct qubits to T, and the two rows of T
\* anti-commute.
C18_Witness ==
    /\ InRound
    /\ pc = "step5"
    /\ n >= 2
    /\ Len(T.xs) >= 2
    /\ \A g \in {"H", "S", "SWAP", "CNOT"} :
           \E k \in 1..Len(Recorded) : Recorded[k].name = g
    /\ \E k \in 1..Len(Recorded) :
           Recorded[k].name = "CNOT" /\ Recorded[k].idxs[1] # Recorded[k].idxs[2]
    /\ ~RowsCommute(T, 0, 1)

====
